---- MODULE Spec2Model ----
(***************************************************************************)
(* Model of src/mastra/workflows/multi-city-weather-workflow.ts:           *)
(* the per-city pipeline (geocode, forecast, activity recommendations),    *)
(* the foreach fan-out with concurrency 3 and the destination scorer.      *)
(*                                                                         *)
(* Representation.  A JavaScript string the code inspects (condition       *)
(* labels, weatherSummary) is a sequence of one-character strings; the     *)
(* degree sign of the summary template is the single element "deg".        *)
(* Strings the code only copies (city names, activity labels) are TLA+     *)
(* strings; the activity labels are written without their emoji prefix.    *)
(* A JavaScript number is an integer count of tenths (20.5 is 205), the    *)
(* resolution of the forecast service's values.                            *)
(***************************************************************************)
EXTENDS Integers, Sequences, FiniteSets, TLC

VARIABLES
    cities,       \* inputData.cities, the workflow's input
    pc,           \* pc[i]: position of city i's pipeline
    geoResp,      \* geoResp[i]: what the geocoding call of pipeline i returned
    fcResp,       \* fcResp[i]: what the forecast call of pipeline i returned
    geoReqs,      \* geoReqs[i]: geocoding requests pipeline i has issued
    fcReqs,       \* fcReqs[i]: forecast requests pipeline i has issued
    weather,      \* weather[i]: output of fetch-weather-for-city of pipeline i
    produced,     \* produced[i]: output of pipeline i (an activity record)
    collected,    \* the foreach result array
    outOfOrder,   \* some pipeline completed before one of an earlier city
    phase,        \* state of the workflow run: "fanout", "success", "failed"
                  \* ("idle" in the unit specification)
    scorerRan,    \* find-best-destination has been invoked
    scorerInput,  \* the array find-best-destination was invoked with
    report,       \* the workflow's output
    unitWeather,  \* unit specification: a cityWeatherSchema record
    unitRec,      \* unit specification: the recommender's output for it
    unitScored    \* unit specification: the scorer's entry for it

vars == <<cities, pc, geoResp, fcResp, geoReqs, fcReqs, weather, produced,
          collected, outOfOrder, phase, scorerRan, scorerInput, report,
          unitWeather, unitRec, unitScored>>

workflowVars == <<cities, pc, geoResp, fcResp, geoReqs, fcReqs, weather,
                  produced, collected, outOfOrder, phase, scorerRan,
                  scorerInput, report>>

unitVars == <<unitWeather, unitRec, unitScored>>

\* The absent value (undefined / not yet produced).
None == [none |-> TRUE]

-----------------------------------------------------------------------------
(* Bounds of the model. *)

\* Longest input city list.
MaxCities == 4

\* Unit specification: temperatures range over -TempSpan..TempSpan tenths.
TempSpan == 400

-----------------------------------------------------------------------------
(* Numbers and strings. *)

\* n degrees (or percent) as tenths.
Deg(n) == n * 10

DigitChars == <<"0","1","2","3","4","5","6","7","8","9">>
UpperChars == <<"A","B","C","D","E","F","G","H","I","J","K","L","M","N","O","P","Q","R","S","T","U","V","W","X","Y","Z">>
LowerChars == <<"a","b","c","d","e","f","g","h","i","j","k","l","m","n","o","p","q","r","s","t","u","v","w","x","y","z">>

IsDigit(c) == \E d \in 1..10 : DigitChars[d] = c

DigitVal(c) == (CHOOSE d \in 1..10 : DigitChars[d] = c) - 1

ToLowerChar(c) ==
    IF \E k \in 1..26 : UpperChars[k] = c
    THEN LowerChars[CHOOSE k \in 1..26 : UpperChars[k] = c]
    ELSE c

\* String.prototype.toLowerCase
ToLowerCase(s) == [p \in 1..Len(s) |-> ToLowerChar(s[p])]

\* String.prototype.includes
Includes(s, k) ==
    \E p \in 0..(Len(s) - Len(k)) : SubSeq(s, p + 1, p + Len(k)) = k

RECURSIVE NatToString(_)
NatToString(n) ==
    IF n < 10 THEN <<DigitChars[n + 1]>>
    ELSE NatToString(n \div 10) \o <<DigitChars[(n % 10) + 1]>>

\* Number to string, as a template literal's ${x} does it: the shortest
\* decimal, so an integral value prints without a fraction.
NumberToString(x) ==
    LET a == IF x < 0 THEN -x ELSE x
    IN  (IF x < 0 THEN <<"-">> ELSE <<>>)
        \o NatToString(a \div 10)
        \o (IF a % 10 # 0 THEN <<".", DigitChars[(a % 10) + 1]>> ELSE <<>>)

\* Last index of the run of digits of s that starts at p.
DigitRunEnd(s, p) ==
    CHOOSE q \in p..Len(s) :
        /\ \A r \in p..q : IsDigit(s[r])
        /\ (q = Len(s) \/ ~IsDigit(s[q + 1]))

\* s.match(/(-?\d+(?:\.\d+)?)/): the leftmost match's group 1, None for null.
MatchNumber(s) ==
    LET starts == {p \in 1..Len(s) :
                       \/ IsDigit(s[p])
                       \/ (s[p] = "-" /\ p < Len(s) /\ IsDigit(s[p + 1]))}
    IN  IF starts = {} THEN None
        ELSE LET p0 == CHOOSE p \in starts : \A q \in starts : p <= q
                 d0 == IF s[p0] = "-" THEN p0 + 1 ELSE p0
                 d1 == DigitRunEnd(s, d0)
                 e  == IF d1 + 2 <= Len(s) /\ s[d1 + 1] = "." /\ IsDigit(s[d1 + 2])
                       THEN DigitRunEnd(s, d1 + 2) ELSE d1
             IN  [text |-> SubSeq(s, p0, e)]

RECURSIVE DigitsValue(_)
DigitsValue(ds) ==
    IF Len(ds) = 0 THEN 0
    ELSE DigitsValue(SubSeq(ds, 1, Len(ds) - 1)) * 10 + DigitVal(ds[Len(ds)])

\* parseFloat of a string the pattern above matched, in tenths (digits past
\* the first fractional one are below the model's resolution).
ParseFloat(m) ==
    LET neg  == m[1] = "-"
        body == IF neg THEN SubSeq(m, 2, Len(m)) ELSE m
        dot  == {p \in 1..Len(body) : body[p] = "."}
        ip   == IF dot = {} THEN body
                ELSE SubSeq(body, 1, (CHOOSE p \in dot : TRUE) - 1)
        fr   == IF dot = {} THEN 0
                ELSE DigitVal(body[(CHOOSE p \in dot : TRUE) + 1])
        mag  == DigitsValue(ip) * 10 + fr
    IN  IF neg THEN -mag ELSE mag

-----------------------------------------------------------------------------
(* getWeatherCondition *)

WeatherCodes == {0, 1, 2, 3, 45, 51, 61, 63, 65, 71, 95}

ConditionTable ==
    [c \in WeatherCodes |->
        CASE c = 0  -> <<"C","l","e","a","r"," ","s","k","y">>
          [] c = 1  -> <<"M","a","i","n","l","y"," ","c","l","e","a","r">>
          [] c = 2  -> <<"P","a","r","t","l","y"," ","c","l","o","u","d","y">>
          [] c = 3  -> <<"O","v","e","r","c","a","s","t">>
          [] c = 45 -> <<"F","o","g","g","y">>
          [] c = 51 -> <<"L","i","g","h","t"," ","d","r","i","z","z","l","e">>
          [] c = 61 -> <<"S","l","i","g","h","t"," ","r","a","i","n">>
          [] c = 63 -> <<"M","o","d","e","r","a","t","e"," ","r","a","i","n">>
          [] c = 65 -> <<"H","e","a","v","y"," ","r","a","i","n">>
          [] c = 71 -> <<"S","l","i","g","h","t"," ","s","n","o","w">>
          [] c = 95 -> <<"T","h","u","n","d","e","r","s","t","o","r","m">>]

UnknownLabel == <<"U","n","k","n","o","w","n">>

GetWeatherCondition(code) ==
    IF code \in WeatherCodes THEN ConditionTable[code] ELSE UnknownLabel

LocationNotFound ==
    <<"L","o","c","a","t","i","o","n"," ","n","o","t"," ","f","o","u","n","d">>

ClearSky == <<"C","l","e","a","r"," ","s","k","y">>
HeavyRain == <<"H","e","a","v","y"," ","r","a","i","n">>

KwRain  == <<"r","a","i","n">>
KwClear == <<"c","l","e","a","r">>
KwSunny == <<"s","u","n","n","y">>
KwCloud == <<"c","l","o","u","d">>

-----------------------------------------------------------------------------
(* generateActivityRecommendations.execute *)

HotActivities  == <<"Beach or pool visit", "Get ice cream">>
MildActivities == <<"Cycling", "Hiking", "Outdoor photography">>
CoolActivities == <<"Cozy cafe visit", "Museum tour">>
ColdActivities == <<"Winter sports", "Indoor activities">>
RainActivities == <<"Movie theater", "Library visit", "Bowling">>
ClearActivities == <<"Park picnic", "Sunset watching">>

TemperatureActivities(temperature) ==
    IF temperature > Deg(25) THEN HotActivities
    ELSE IF temperature > Deg(15) THEN MildActivities
    ELSE IF temperature > Deg(5) THEN CoolActivities
    ELSE ColdActivities

\* The clear/sunny branch tested before the rain branch.
ConditionAdjustedClearFirst(base, condition) ==
    IF Includes(ToLowerCase(condition), KwClear)
       \/ Includes(ToLowerCase(condition), KwSunny)
    THEN base \o ClearActivities
    ELSE IF Includes(ToLowerCase(condition), KwRain)
    THEN RainActivities
    ELSE base

ConditionAdjusted(base, condition) ==
    IF Includes(ToLowerCase(condition), KwRain)
    THEN RainActivities
    ELSE IF Includes(ToLowerCase(condition), KwClear)
            \/ Includes(ToLowerCase(condition), KwSunny)
    THEN base \o ClearActivities
    ELSE base

WeatherSummary(temperature, condition, humidity) ==
    NumberToString(temperature) \o <<"deg", "C", ",", " ">>
    \o condition \o <<",", " ">>
    \o NumberToString(humidity) \o <<"%"," ","h","u","m","i","d","i","t","y">>

GenerateActivityRecommendations(w) ==
    [city           |-> w.city,
     activities     |-> ConditionAdjusted(TemperatureActivities(w.temperature),
                                          w.condition),
     weatherSummary |-> WeatherSummary(w.temperature, w.condition, w.humidity)]

-----------------------------------------------------------------------------
(* findBestDestination.execute: the scoring callback *)

BaseScore == 50

ParsedTemp(weatherSummary) ==
    LET tempMatch == MatchNumber(weatherSummary)
    IN  IF tempMatch # None THEN ParseFloat(tempMatch.text) ELSE Deg(20)

\* The comfortable band entered with > instead of >=.
TemperatureScoreStrict(temp) ==
    IF temp > Deg(18) /\ temp <= Deg(25) THEN 30
    ELSE IF temp >= Deg(15) /\ temp <= Deg(28) THEN 20
    ELSE IF temp < Deg(5) \/ temp > Deg(35) THEN -20
    ELSE 0

\* A heavier penalty for extreme temperatures.
TemperatureScoreHarsh(temp) ==
    IF temp >= Deg(18) /\ temp <= Deg(25) THEN 30
    ELSE IF temp >= Deg(15) /\ temp <= Deg(28) THEN 20
    ELSE IF temp < Deg(5) \/ temp > Deg(35) THEN -40
    ELSE 0

TemperatureScore(temp) ==
    IF temp >= Deg(18) /\ temp <= Deg(25) THEN 30
    ELSE IF temp >= Deg(15) /\ temp <= Deg(28) THEN 20
    ELSE IF temp < Deg(5) \/ temp > Deg(35) THEN -20
    ELSE 0

ConditionScore(weatherSummary) ==
    IF Includes(ToLowerCase(weatherSummary), KwClear) THEN 20
    ELSE IF Includes(ToLowerCase(weatherSummary), KwRain) THEN -15
    ELSE IF Includes(ToLowerCase(weatherSummary), KwCloud) THEN 5
    ELSE 0

ScoreCity(rec) ==
    [city           |-> rec.city,
     score          |-> BaseScore
                        + TemperatureScore(ParsedTemp(rec.weatherSummary))
                        + ConditionScore(rec.weatherSummary),
     weatherSummary |-> rec.weatherSummary,
     topActivity    |-> IF Len(rec.activities) > 0 /\ rec.activities[1] # ""
                        THEN rec.activities[1] ELSE "Explore the city"]

-----------------------------------------------------------------------------
(* Unit specification: one record through the recommender and the scorer. *)

ExtraConditions ==
    { <<"S","u","n","n","y">>,
      <<"H","E","A","V","Y"," ","R","A","I","N">>,
      <<"C","l","e","a","r",","," ","r","a","i","n"," ","l","a","t","e","r">> }

UnitConditions ==
    {GetWeatherCondition(c) : c \in WeatherCodes \cup {99}}
    \cup {LocationNotFound} \cup ExtraConditions

UnitHumidities == {Deg(0), Deg(50), Deg(100)}

WorkflowIdle ==
    /\ cities = <<>>
    /\ pc = <<>>
    /\ geoResp = <<>>
    /\ fcResp = <<>>
    /\ geoReqs = <<>>
    /\ fcReqs = <<>>
    /\ weather = <<>>
    /\ produced = <<>>
    /\ collected = <<>>
    /\ outOfOrder = FALSE
    /\ phase = "idle"
    /\ scorerRan = FALSE
    /\ scorerInput = <<>>
    /\ report = None

UnitInit ==
    /\ WorkflowIdle
    /\ \E t \in (-TempSpan)..TempSpan, c \in UnitConditions, h \in UnitHumidities :
           unitWeather = [city |-> "Paris", temperature |-> t,
                          condition |-> c, humidity |-> h]
    /\ unitRec = None
    /\ unitScored = None

UnitRecommend ==
    /\ unitRec = None
    /\ unitRec' = GenerateActivityRecommendations(unitWeather)
    /\ UNCHANGED <<unitWeather, unitScored>>
    /\ UNCHANGED workflowVars

UnitScore ==
    /\ unitRec # None
    /\ unitScored = None
    /\ unitScored' = ScoreCity(unitRec)
    /\ UNCHANGED <<unitWeather, unitRec>>
    /\ UNCHANGED workflowVars

UnitNext == UnitRecommend \/ UnitScore

UnitSpec == UnitInit /\ [][UnitNext]_vars

-----------------------------------------------------------------------------
(* fetch-weather-for-city.execute *)

\* What the geocoding service may answer for a query: a transport or parse
\* fault, no result, or a first result carrying the canonical name.
CityPool == <<"paris", "tokyo", "oslo", "lima", "rome", "cairo">>
CanonicalPool == <<"Paris", "Tokyo", "Oslo", "Lima", "Rome", "Cairo">>

CanonicalName(city) ==
    CanonicalPool[CHOOSE k \in 1..Len(CityPool) : CityPool[k] = city]

NoResponse == [kind |-> "none"]

GeocodingResponses(city) ==
    { [kind |-> "fault", name |-> ""],
      [kind |-> "miss", name |-> ""],
      [kind |-> "hit", name |-> CanonicalName(city)] }

\* What the forecast service may answer: a fault, or current conditions.
WorkflowForecasts ==
    { [temperature_2m |-> Deg(20), relative_humidity_2m |-> Deg(50), weathercode |-> 0],
      [temperature_2m |-> Deg(20), relative_humidity_2m |-> Deg(50), weathercode |-> 1],
      [temperature_2m |-> Deg(20), relative_humidity_2m |-> Deg(80), weathercode |-> 65] }

ForecastResponses ==
    { [kind |-> "fault", current |-> None] }
    \cup { [kind |-> "ok", current |-> c] : c \in WorkflowForecasts }

SentinelWeather(city) ==
    [city |-> city, temperature |-> 0,
     condition |-> LocationNotFound, humidity |-> 0]

\* A miss treated as an error instead of the sentinel.
AfterGeocodeThrowOnMiss(city, geo) ==
    IF geo.kind = "hit"
    THEN [pc |-> "forecasting", weather |-> None, fcReqs |-> 1]
    ELSE [pc |-> "failed", weather |-> None, fcReqs |-> 0]

\* From the geocoding response up to the forecast request: a fault
\* propagates (the step fails), a miss returns the sentinel, a hit issues
\* the forecast request.
AfterGeocode(city, geo) ==
    IF geo.kind = "fault"
    THEN [pc |-> "failed", weather |-> None, fcReqs |-> 0]
    ELSE IF geo.kind = "miss"
    THEN [pc |-> "returned", weather |-> SentinelWeather(city), fcReqs |-> 0]
    ELSE [pc |-> "forecasting", weather |-> None, fcReqs |-> 1]

\* A forecast fault caught and turned into the sentinel record.
AfterForecastCatch(name, fc) ==
    IF fc.kind = "fault"
    THEN [pc |-> "returned", weather |-> SentinelWeather(name)]
    ELSE [pc |-> "returned",
          weather |-> [city        |-> name,
                       temperature |-> fc.current.temperature_2m,
                       condition   |-> GetWeatherCondition(fc.current.weathercode),
                       humidity    |-> fc.current.relative_humidity_2m]]

\* From the forecast response to the step's return value.
AfterForecast(name, fc) ==
    IF fc.kind = "fault"
    THEN [pc |-> "failed", weather |-> None]
    ELSE [pc |-> "returned",
          weather |-> [city        |-> name,
                       temperature |-> fc.current.temperature_2m,
                       condition   |-> GetWeatherCondition(fc.current.weathercode),
                       humidity    |-> fc.current.relative_humidity_2m]]

-----------------------------------------------------------------------------
(* findBestDestination.execute: sort and report *)

\* Ascending comparator (a.score - b.score).
InsertByScoreAscending(sorted, x) ==
    LET before == {k \in 1..Len(sorted) : sorted[k].score <= x.score}
        n == Cardinality(before)
    IN  SubSeq(sorted, 1, n) \o <<x>> \o SubSeq(sorted, n + 1, Len(sorted))

\* An unstable sort: equal scores end in reverse order.
InsertByScoreUnstable(sorted, x) ==
    LET before == {k \in 1..Len(sorted) : sorted[k].score > x.score}
        n == Cardinality(before)
    IN  SubSeq(sorted, 1, n) \o <<x>> \o SubSeq(sorted, n + 1, Len(sorted))

\* x placed into `sorted` (descending): after every entry whose score is not
\* smaller, as the stable Array.prototype.sort leaves it with the comparator
\* b.score - a.score.
InsertByScore(sorted, x) ==
    LET before == {k \in 1..Len(sorted) : sorted[k].score >= x.score}
        n == Cardinality(before)
    IN  SubSeq(sorted, 1, n) \o <<x>> \o SubSeq(sorted, n + 1, Len(sorted))

RECURSIVE SortByScore(_)
SortByScore(s) ==
    IF Len(s) = 0 THEN <<>>
    ELSE InsertByScore(SortByScore(SubSeq(s, 1, Len(s) - 1)), s[Len(s)])

Reason(best) ==
    <<best.city, " has the best weather conditions with ", best.weatherSummary,
      ". Top recommended activity: ", best.topActivity>>

\* An empty input answered with an empty report (best?.city ?? '').
FindBestDestinationGuarded(cityRecommendations) ==
    LET scoredCities ==
            SortByScore([k \in 1..Len(cityRecommendations) |->
                             ScoreCity(cityRecommendations[k])])
    IN  IF Len(scoredCities) = 0
        THEN [status |-> "success",
              output |-> [bestCity |-> "", reason |-> <<>>, allCities |-> <<>>]]
        ELSE [status |-> "success",
              output |-> [bestCity  |-> scoredCities[1].city,
                          reason    |-> Reason(scoredCities[1]),
                          allCities |-> scoredCities]]

\* best = scoredCities[0] is undefined for an empty array and best.city
\* throws: the step fails.
FindBestDestinationExecute(cityRecommendations) ==
    LET scoredCities ==
            SortByScore([k \in 1..Len(cityRecommendations) |->
                             ScoreCity(cityRecommendations[k])])
    IN  IF Len(scoredCities) = 0
        THEN [status |-> "failed", output |-> None]
        ELSE [status |-> "success",
              output |-> [bestCity  |-> scoredCities[1].city,
                          reason    |-> Reason(scoredCities[1]),
                          allCities |-> scoredCities]]

-----------------------------------------------------------------------------
(* multiCityWeatherWorkflow: map, foreach (concurrency 3), then the scorer *)

\* The ceiling set one higher.
ConcurrencyRaised == 3 + 1

Concurrency == 3

Idx == 1..Len(cities)

InFlightSet == {i \in Idx : pc[i] \in {"geocoding", "forecasting"}}

InFlight == Cardinality(InFlightSet)

NCompleted == Cardinality({i \in Idx : pc[i] = "done"})

\* The k-th pipeline to complete stores its output in completion order.
StoreResultByCompletion(coll, i, k, rec) == [coll EXCEPT ![k] = rec]

\* The output of pipeline i goes to slot i of the result array.
StoreResult(coll, i, k, rec) == [coll EXCEPT ![i] = rec]

Init ==
    /\ \E n \in 0..MaxCities : cities = SubSeq(CityPool, 1, n)
    /\ pc = [i \in Idx |-> "pending"]
    /\ geoResp = [i \in Idx |-> NoResponse]
    /\ fcResp = [i \in Idx |-> NoResponse]
    /\ geoReqs = [i \in Idx |-> 0]
    /\ fcReqs = [i \in Idx |-> 0]
    /\ weather = [i \in Idx |-> None]
    /\ produced = [i \in Idx |-> None]
    /\ collected = [i \in Idx |-> None]
    /\ outOfOrder = FALSE
    /\ phase = "fanout"
    /\ scorerRan = FALSE
    /\ scorerInput = <<>>
    /\ report = None
    /\ unitWeather = None
    /\ unitRec = None
    /\ unitScored = None

\* foreach starts the next pending city, in input order, when a slot is free;
\* the pipeline's first step issues the geocoding request.
StartCity(i) ==
    /\ phase = "fanout"
    /\ pc[i] = "pending"
    /\ \A j \in Idx : j < i => pc[j] # "pending"
    /\ InFlight < Concurrency
    /\ pc' = [pc EXCEPT ![i] = "geocoding"]
    /\ geoReqs' = [geoReqs EXCEPT ![i] = @ + 1]
    /\ UNCHANGED <<cities, geoResp, fcResp, fcReqs, weather, produced,
                   collected, outOfOrder, phase, scorerRan, scorerInput, report>>
    /\ UNCHANGED unitVars

\* Pipeline i takes the outcome r of fetch-weather-for-city: the step awaits
\* its next call, fails, or returns its record, and on a return the
\* pipeline's last step, generate-activity-recommendations (which awaits
\* nothing), runs and the pipeline's output is collected.
PipelineStep(i, r) ==
    LET returned == r.pc = "returned"
        rec == IF returned THEN GenerateActivityRecommendations(r.weather)
               ELSE None
    IN  /\ pc' = [pc EXCEPT ![i] = IF returned THEN "done" ELSE r.pc]
        /\ weather' = [weather EXCEPT ![i] = r.weather]
        /\ produced' = [produced EXCEPT ![i] = rec]
        /\ collected' = IF returned
                        THEN StoreResult(collected, i, NCompleted + 1, rec)
                        ELSE collected
        /\ outOfOrder' = (outOfOrder
                          \/ (returned /\ \E j \in Idx : j < i /\ pc[j] # "done"))

\* The geocoding call of pipeline i returns.
GeocodeReturns(i) ==
    /\ pc[i] = "geocoding"
    /\ \E geo \in GeocodingResponses(cities[i]) :
         LET r == AfterGeocode(cities[i], geo)
         IN  /\ geoResp' = [geoResp EXCEPT ![i] = geo]
             /\ fcReqs' = [fcReqs EXCEPT ![i] = @ + r.fcReqs]
             /\ PipelineStep(i, r)
    /\ UNCHANGED <<cities, fcResp, geoReqs, phase, scorerRan, scorerInput,
                   report>>
    /\ UNCHANGED unitVars

\* The forecast call of pipeline i returns.
ForecastReturns(i) ==
    /\ pc[i] = "forecasting"
    /\ \E fc \in ForecastResponses :
         /\ fcResp' = [fcResp EXCEPT ![i] = fc]
         /\ PipelineStep(i, AfterForecast(geoResp[i].name, fc))
    /\ UNCHANGED <<cities, geoResp, geoReqs, fcReqs, phase, scorerRan,
                   scorerInput, report>>
    /\ UNCHANGED unitVars

\* A failed pipeline fails the foreach step and with it the workflow run.
BatchFail ==
    /\ phase = "fanout"
    /\ \E i \in Idx : pc[i] = "failed"
    /\ phase' = "failed"
    /\ UNCHANGED <<cities, pc, geoResp, fcResp, geoReqs, fcReqs, weather,
                   produced, collected, outOfOrder, scorerRan, scorerInput,
                   report>>
    /\ UNCHANGED unitVars

\* Every pipeline succeeded: .then(findBestDestination) runs on the array.
FindBestDestination ==
    /\ phase = "fanout"
    /\ \A i \in Idx : pc[i] = "done"
    /\ scorerRan' = TRUE
    /\ scorerInput' = collected
    /\ LET r == FindBestDestinationExecute(collected)
       IN  /\ phase' = r.status
           /\ report' = r.output
    /\ UNCHANGED <<cities, pc, geoResp, fcResp, geoReqs, fcReqs, weather,
                   produced, collected, outOfOrder>>
    /\ UNCHANGED unitVars

Next ==
    \/ \E i \in Idx : StartCity(i)
    \/ \E i \in Idx : GeocodeReturns(i)
    \/ \E i \in Idx : ForecastReturns(i)
    \/ BatchFail
    \/ FindBestDestination

Spec == Init /\ [][Next]_vars

-----------------------------------------------------------------------------
(* Unit specification: claims about the recommender and the scorer. *)

\* C3: the score of a record is 50 plus the temperature adjustment (+30 on
\* [18,25], else +20 on [15,28], else -20 below 5 or above 35, else 0) plus
\* the condition adjustment (+20 "clear", else -15 "rain", else +5 "cloud",
\* else 0, case-insensitive, first match wins); 20 degrees with "Clear sky"
\* scores 100 and 20 degrees with "Heavy rain" scores 65.
ScoreIsBasePlusAdjustments ==
    unitScored # None =>
        LET t == unitWeather.temperature
            s == ToLowerCase(unitRec.weatherSummary)
            tempAdj == IF Deg(18) <= t /\ t <= Deg(25) THEN 30
                       ELSE IF Deg(15) <= t /\ t <= Deg(28) THEN 20
                       ELSE IF t < Deg(5) \/ t > Deg(35) THEN -20
                       ELSE 0
            condAdj == IF Includes(s, KwClear) THEN 20
                       ELSE IF Includes(s, KwRain) THEN -15
                       ELSE IF Includes(s, KwCloud) THEN 5
                       ELSE 0
        IN  /\ unitScored.score = 50 + tempAdj + condAdj
            /\ (t = Deg(20) /\ unitWeather.condition = ClearSky
                    => unitScored.score = 100)
            /\ (t = Deg(20) /\ unitWeather.condition = HeavyRain
                    => unitScored.score = 65)

\* C3 witness: a record at the lower edge of the comfortable band, whose
\* summary holds both "clear" and "rain", has been scored 100.
ScoredBoundaryRecord ==
    /\ unitScored # None
    /\ unitWeather.temperature = Deg(18)
    /\ Includes(ToLowerCase(unitRec.weatherSummary), KwClear)
    /\ Includes(ToLowerCase(unitRec.weatherSummary), KwRain)
    /\ unitScored.score = 100

\* C9: the activity list is the rain set alone when the condition contains
\* "rain" in any case; otherwise the temperature bracket's set (>25 hot,
\* (15,25] mild, (5,15] cool, <=5 cold), followed by the picnic/sunset pair
\* when the condition contains "clear" or "sunny".
ActivitiesFollowRules ==
    unitRec # None =>
        LET t == unitWeather.temperature
            c == ToLowerCase(unitWeather.condition)
            bracket == CASE t > Deg(25) -> HotActivities
                         [] t > Deg(15) /\ t <= Deg(25) -> MildActivities
                         [] t > Deg(5) /\ t <= Deg(15) -> CoolActivities
                         [] t <= Deg(5) -> ColdActivities
        IN  unitRec.activities =
                IF Includes(c, KwRain)
                THEN <<"Movie theater", "Library visit", "Bowling">>
                ELSE IF Includes(c, KwClear) \/ Includes(c, KwSunny)
                THEN bracket \o <<"Park picnic", "Sunset watching">>
                ELSE bracket

\* C9 witness: an upper-case rain label on a hot day got the rain set.
RainOverridesHotDay ==
    /\ unitRec # None
    /\ unitWeather.temperature > Deg(25)
    /\ unitWeather.condition = <<"H","E","A","V","Y"," ","R","A","I","N">>
    /\ unitRec.activities = RainActivities

\* C10: every score lies between 15 and 100 inclusive.
ScoreWithinBounds ==
    unitScored # None => (15 <= unitScored.score /\ unitScored.score <= 100)

\* C10 witness: the least score, 15, is produced (extreme temperature, rain).
LeastScoreProduced ==
    /\ unitScored # None
    /\ unitScored.score = 15

-----------------------------------------------------------------------------
(* Workflow specification: claims. *)

\* The city the pipeline of input i reports: the input name for a geocoding
\* miss, the geocoder's canonical name otherwise.
ExpectedCity(i) ==
    IF geoResp[i].kind = "miss" THEN cities[i] ELSE CanonicalName(cities[i])

\* The scores of the pipelines' outputs, by input position (the claims bind
\* it with a quantifier so that it is computed once per state).
Scores == [i \in Idx |-> ScoreCity(produced[i]).score]

MaxScoreIdx(sc) == {i \in Idx : \A j \in Idx : sc[j] <= sc[i]}

\* C1: bestCity is the city of a record of maximum score, the earliest such
\* record in input order.
BestCityIsFirstMaximum ==
    phase = "success" =>
        \A sc \in {Scores} :
            LET maxIdx == MaxScoreIdx(sc)
                first == CHOOSE i \in maxIdx : \A j \in maxIdx : i <= j
            IN  /\ report.bestCity = scorerInput[first].city
                /\ report.bestCity = ExpectedCity(first)

\* C1 witness: a report over records where the maximum is shared and its
\* first holder is not the first record.
BestAmongTiedMaxima ==
    /\ phase = "success"
    /\ \E sc \in {Scores} :
           Cardinality(MaxScoreIdx(sc)) >= 2 /\ 1 \notin MaxScoreIdx(sc)

\* C2: allCities has one entry per input city, in non-increasing score order,
\* equal scores in input order.
AllCitiesStableDescending ==
    phase = "success" =>
        \A sc \in {Scores} :
            LET all == report.allCities
                pos(i) == 1 + Cardinality({j \in Idx : sc[j] > sc[i]})
                            + Cardinality({j \in Idx : j < i /\ sc[j] = sc[i]})
            IN  /\ Len(all) = Len(cities)
                /\ \A k \in 1..(Len(all) - 1) : all[k].score >= all[k + 1].score
                /\ \A i \in Idx : /\ all[pos(i)].city = ExpectedCity(i)
                                  /\ all[pos(i)].score = sc[i]

\* C2 witness: a report over at least three cities with a tie and with a
\* lower score ahead of a higher one in the input.
ReportReordersWithTie ==
    /\ phase = "success"
    /\ Len(cities) >= 3
    /\ \E sc \in {Scores} :
           /\ \E i, j \in Idx : i < j /\ sc[i] = sc[j]
           /\ \E i, j \in Idx : i < j /\ sc[i] < sc[j]

\* C4: at most 3 per-city pipelines are in flight in any reachable state.
AtMostThreeInFlight == InFlight <= 3

\* C4 witness: three pipelines in flight while a city is still pending.
ThreeInFlightOnePending ==
    /\ InFlight = 3
    /\ \E i \in Idx : pc[i] = "pending"

\* C5: the array handed to the scorer holds the output of the pipeline of
\* input city i at position i.
ResultsInInputOrder ==
    scorerRan =>
        /\ Len(scorerInput) = Len(cities)
        /\ \A i \in Idx : /\ scorerInput[i] = produced[i]
                          /\ scorerInput[i].city = ExpectedCity(i)

\* C5 witness: the scorer ran on several results that completed out of input
\* order.
ScorerRanAfterOutOfOrder ==
    /\ scorerRan
    /\ outOfOrder
    /\ Len(cities) >= 2

\* C6: a geocoding miss issues no forecast request, yields the sentinel
\* record under the input name and does not fail the pipeline; the report
\* scores that city 30.
MissYieldsSentinelScored30 ==
    \A i \in Idx :
        geoResp[i].kind = "miss" =>
            /\ fcReqs[i] = 0
            /\ fcResp[i] = NoResponse
            /\ pc[i] = "done"
            /\ weather[i] = [city |-> cities[i], temperature |-> 0,
                             condition |-> LocationNotFound, humidity |-> 0]
            /\ (phase = "success" =>
                    \E k \in 1..Len(report.allCities) :
                        /\ report.allCities[k].city = cities[i]
                        /\ report.allCities[k].score = 30)

\* C6 witness: a report that includes a city the geocoder did not find.
ReportWithUnknownCity ==
    /\ phase = "success"
    /\ \E i \in Idx : geoResp[i].kind = "miss"

Faulted(i) == geoResp[i].kind = "fault" \/ fcResp[i].kind = "fault"

\* C7: once a geocoding or forecast call of any pipeline has faulted, that
\* pipeline is failed without a second request, the scorer has not run and
\* never runs, and there is no report.
FaultFailsWholeBatch ==
    \A i \in Idx :
        Faulted(i) =>
            /\ pc[i] = "failed"
            /\ geoReqs[i] = 1
            /\ fcReqs[i] <= 1
            /\ ~scorerRan
            /\ report = None
            /\ phase \in {"fanout", "failed"}

\* C7 witness: the run has failed on one city's fault while another city's
\* pipeline had succeeded and a third was still in flight.
BatchFailedWithOthersDoneAndInFlight ==
    /\ phase = "failed"
    /\ \E i, j, k \in Idx : /\ Faulted(i)
                            /\ pc[j] = "done"
                            /\ pc[k] \in {"geocoding", "forecasting"}

\* C8: for an empty city list the scorer is handed an empty array and fails;
\* no report is produced.
EmptyInputFailsWithoutReport ==
    Len(cities) = 0 =>
        /\ report = None
        /\ phase \in {"fanout", "failed"}
        /\ (scorerRan => scorerInput = <<>> /\ phase = "failed")

\* C8 witness: the scorer ran on the empty array and the run failed.
EmptyInputScorerFailed ==
    /\ Len(cities) = 0
    /\ scorerRan
    /\ phase = "failed"

====
